---- MODULE Spec2Model ----
(***************************************************************************)
(* Like-toggle client (app/static/js/likes.js, liked-posts.js) as a state  *)
(* machine: one page view, its like buttons, the requests in flight, the   *)
(* timers, and the server's like records the requests act on.              *)
(*                                                                         *)
(* Every handler runs to its next suspension point (a fetch or a timer)    *)
(* as one action: the page has a single UI thread.                         *)
(*                                                                         *)
(* The theme switch (app/static/js/theme.js) shares nothing with the like  *)
(* buttons and has a specification of its own, ThemeSpec.                  *)
(***************************************************************************)
EXTENDS Integers, Sequences, FiniteSets, TLC

\* ------------------------------------------------------------------ bounds
\* What the page view's surroundings may do to it: clicks that send a toggle
\* request plus insertions that start a rescan timer.
MaxEvents == 2
\* Clicks on the theme toggle during one page view.
MaxThemeClicks == 4

\* ---------------------------------------------------------------- fixture
\* The like buttons the page view may hold.
Buttons == {"b1", "b2"}

\* An absent attribute or element.
NoValue == <<"<absent>">>

\* data-post-id values a template can render for each button: b2 names
\* another item, the same item as b1, no item (does not parse), or has no
\* such attribute.
PostIdAttrs(b) ==
    IF b = "b1"
    THEN {<<"7">>}
    ELSE {<<" ", "8", "p", "x">>, <<"7">>, <<"x", "7">>, NoValue}

\* Contents of <meta name="user-id">: absent element, blank, not a number,
\* zero, a user id.
UserMetas == {NoValue, <<" ">>, <<"a", "b">>, <<"0">>, <<"4", "2">>}

\* ------------------------------------------------------- parseInt (radix 10)
IsSpace(c) == c \in {" ", "\t", "\n"}

DigitVal(c) ==
    CASE c = "0" -> 0 [] c = "1" -> 1 [] c = "2" -> 2 [] c = "3" -> 3
      [] c = "4" -> 4 [] c = "5" -> 5 [] c = "6" -> 6 [] c = "7" -> 7
      [] c = "8" -> 8 [] c = "9" -> 9 [] OTHER -> -1

RECURSIVE SkipSpace(_)
SkipSpace(s) ==
    IF s # <<>> /\ IsSpace(Head(s)) THEN SkipSpace(Tail(s)) ELSE s

\* The longest prefix of decimal digits of s, folded into acc.
RECURSIVE ParseDigits(_, _, _)
ParseDigits(s, acc, seen) ==
    IF s # <<>> /\ DigitVal(Head(s)) >= 0
    THEN ParseDigits(Tail(s), 10 * acc + DigitVal(Head(s)), TRUE)
    ELSE [seen |-> seen, acc |-> acc]

\* A JavaScript number that is an integer or NaN.
NaN == [nan |-> TRUE, n |-> 0]
Num(n) == [nan |-> FALSE, n |-> n]

\* parseInt(string): leading white space, an optional sign, decimal digits;
\* NaN when no digit follows.  (No fixture string has a 0x prefix.)
parseInt(s) ==
    LET t   == SkipSpace(s)
        neg == t # <<>> /\ Head(t) = "-"
        u   == IF t # <<>> /\ Head(t) \in {"-", "+"} THEN Tail(t) ELSE t
        r   == ParseDigits(u, 0, FALSE)
    IN  IF r.seen THEN Num(IF neg THEN 0 - r.acc ELSE r.acc) ELSE NaN

\* String(null), what parseInt sees when getAttribute returns null.
NullString == <<"n", "u", "l", "l">>

\* JavaScript truthiness of a number-or-null value (null is kept as NaN).
Truthy(v) == ~v.nan /\ v.n # 0

\* string.trim() === ''
IsBlank(s) == SkipSpace(s) = <<>>

\* ------------------------------------------------------------------- state
VARIABLES
    phase,            \* "loading", "ready" or "reloaded" (the document is gone)
    likedPage,        \* liked-posts.js is loaded and .articles-list exists
    userMeta,         \* content of <meta name="user-id">, or NoValue
    postIdAttr,       \* button -> its data-post-id attribute, or NoValue
    btn,              \* button -> its DOM state
    originalContent,  \* button -> the clones toggleLike took when it locked it
    net,              \* requests in flight, each with the server's answer
    srv,              \* item -> the server's like record for this viewer
    handlerInstalled, \* setupLikeButtons has run
    timers,           \* pending rescan timers of the mutation observer
    nPass,            \* Status Sync passes started
    nToggleReq,       \* toggle requests sent
    shown,            \* notices (alert) shown by the last step
    themeScript,      \* theme.js: "pending" or "run"
    storedTheme,      \* localStorage item 'theme', or NoTheme
    dataTheme,        \* data-theme attribute of <html>, or NoTheme
    themeIcon,        \* innerHTML of #theme-icon, or "absent"
    themeToggle,      \* the element #theme-toggle exists
    nThemeClicks      \* clicks on the theme toggle handled

themeVars == <<themeScript, storedTheme, dataTheme, themeIcon, themeToggle,
               nThemeClicks>>

vars == <<phase, likedPage, userMeta, postIdAttr, btn, originalContent, net, srv,
          handlerInstalled, timers, nPass, nToggleReq, shown, themeVars>>

\* Items the fixture's buttons can name.
Items ==
    LET parsed == {parseInt(a) : a \in UNION {PostIdAttrs(b) : b \in Buttons} \ {NoValue}}
    IN  {v.n : v \in {w \in parsed : ~w.nan}}

\* What a sub-element of a button shows: absent, painted not-liked, painted liked.
Paint(isLiked) == IF isLiked THEN "on" ELSE "off"

\* The markup of a like button: an icon and a text sub-element.
Markup(isLiked) ==
    [spinner |-> FALSE, icon |-> Paint(isLiked), text |-> Paint(isLiked)]

\* A button as the template renders it.
Rendered(where, isLiked) ==
    [where |-> where, disabled |-> FALSE, liked |-> isLiked,
     fading |-> FALSE, content |-> Markup(isLiked)]

NoClones == [icon |-> "none", text |-> "none"]

\* Notices.
AuthNotice == "please log in"
FailNotice == "like update failed"

InDocument(bt) == bt.where \in {"page", "list"}

\* ------------------------------------------------------------ likes.js

\* getCurrentUserId(): null (kept as NaN) when the meta element is absent,
\* empty, blank or not a number.
getCurrentUserId ==
    IF userMeta = NoValue \/ userMeta = <<>> \/ IsBlank(userMeta)
    THEN NaN
    ELSE parseInt(userMeta)

\* parseInt(button.getAttribute('data-post-id'))
PostId(b) ==
    IF postIdAttr[b] = NoValue THEN parseInt(NullString) ELSE parseInt(postIdAttr[b])

\* button matches '.like-button[data-post-id]'
HasPostIdAttr(b) == postIdAttr[b] # NoValue

\* updateLikeButton writing the button's markup anew instead of restyling
\* the sub-elements it finds.
updateLikeButton_rebuilds(bt, isLiked) ==
    [bt EXCEPT !.liked = isLiked, !.content = Markup(isLiked)]

\* updateLikeButton(button, isLiked): class, icon and text, each if present.
updateLikeButton(bt, isLiked) ==
    [bt EXCEPT !.liked = isLiked,
               !.content.icon = IF @ = "none" THEN "none" ELSE Paint(isLiked),
               !.content.text = IF @ = "none" THEN "none" ELSE Paint(isLiked)]

\* Step 1 of toggleLike flipping the liked class at once (an optimistic
\* update).
LockButton_optimistic(bt) ==
    [bt EXCEPT !.disabled = TRUE,
               !.liked = ~@,
               !.content = [spinner |-> TRUE, icon |-> "none", text |-> "none"]]

\* Step 1 of toggleLike: clone icon and text, disable, show the spinner.
LockButton(bt) ==
    [bt EXCEPT !.disabled = TRUE,
               !.content = [spinner |-> TRUE, icon |-> "none", text |-> "none"]]

\* originalContent of toggleLike: clones of the icon and text found.
CloneContent(bt) == [icon |-> bt.content.icon, text |-> bt.content.text]

\* Step 3 of toggleLike: innerHTML = '', append the clones, repaint, enable.
ReconcileButton(bt, clones, isLiked) ==
    LET restored == [bt EXCEPT !.content =
                        [spinner |-> FALSE, icon |-> clones.icon, text |-> clones.text]]
    IN  [updateLikeButton(restored, isLiked) EXCEPT !.disabled = FALSE]

\* innerHTML = '' and the clones appended, before result.liked is read.
RestoreClones(bt, clones) ==
    [bt EXCEPT !.content =
        [spinner |-> FALSE, icon |-> clones.icon, text |-> clones.text]]

\* The catch block of toggleLike: enable; re-append icon and text when the
\* button still holds both.
FailureRestore(bt) ==
    LET icon == bt.content.icon
        text == bt.content.text
    IN  [bt EXCEPT !.disabled = FALSE,
                   !.content = IF icon # "none" /\ text # "none"
                               THEN [spinner |-> FALSE, icon |-> icon, text |-> text]
                               ELSE @]

\* The body a boolean is sent as.
Json(v) == IF v THEN "true" ELSE "false"

\* The toggle endpoint: the server flips the like record of the item and
\* answers the new state.  Requests reach the server in the order sent.
ServerToggle(records, item) == [records EXCEPT ![item] = ~@]

\* The status endpoint: the server answers the like record of the item.
ServerStatus(records, item) == records[item]

\* A toggle request in flight, with the liked field of the server's answer.
ToggleRequest(b, item, id, via, answer) ==
    [kind |-> "toggle", b |-> b, item |-> item, id |-> id, via |-> via,
     val |-> Json(answer)]

\* A status query in flight, with the body of the server's answer.
StatusRequest(b, item, pass) ==
    [kind |-> "status", b |-> b, item |-> item, id |-> pass, via |-> "sync",
     val |-> Json(ServerStatus(srv, item))]

\* The number of toggle requests of button b in flight in network n.
InFlight(n, b) == Cardinality({m \in n : m.kind = "toggle" /\ m.b = b})

\* The client's side of the state a click handler reads and writes.
Client == [btn |-> btn, orig |-> originalContent, net |-> net, srv |-> srv,
           shown |-> <<>>, nTog |-> nToggleReq]

\* fetch('/api/likes/toggle', {post_id, liked: true}) by a handler.
FetchToggle(c, b, item, via) ==
    [c EXCEPT !.srv = ServerToggle(@, item),
              !.net = @ \cup {ToggleRequest(b, item, InFlight(c.net, b), via,
                                            ServerToggle(c.srv, item)[item])},
              !.nTog = @ + 1]

\* The fetch issued twice (an internal retry).
FetchToggleTwice(c, b, item, via) ==
    [c EXCEPT !.srv = ServerToggle(ServerToggle(@, item), item),
              !.net = @ \cup {ToggleRequest(b, item, InFlight(c.net, b), via,
                                            ServerToggle(c.srv, item)[item]),
                              ToggleRequest(b, item, InFlight(c.net, b) + 1, via,
                                            c.srv[item])},
              !.nTog = @ + 1]

\* toggleLike sending its request twice (an internal retry).
toggleLike_resend(c, b, postId, userId) ==
    IF ~Truthy(userId)
    THEN [c EXCEPT !.shown = Append(@, AuthNotice)]
    ELSE FetchToggleTwice([c EXCEPT !.orig[b] = CloneContent(c.btn[b]),
                                    !.btn[b] = LockButton(@)],
                          b, postId.n, "generic")

\* toggleLike(postId, userId, button) up to its fetch.
toggleLike(c, b, postId, userId) ==
    IF ~Truthy(userId)
    THEN [c EXCEPT !.shown = Append(@, AuthNotice)]
    ELSE FetchToggle([c EXCEPT !.orig[b] = CloneContent(c.btn[b]),
                              !.btn[b] = LockButton(@)],
                     b, postId.n, "generic")

\* The document's listener without its check of the lock.
GenericLocked_never(bt) == FALSE

\* 'if (button.disabled) return' of the document's click listener.
GenericLocked(bt) == bt.disabled

\* The document's listener telling the user of an item id that does not
\* parse (alert in place of console.error).
GenericClick_noticeOnInvalid(c, b) ==
    IF GenericLocked(c.btn[b]) THEN c
    ELSE IF PostId(b).nan THEN [c EXCEPT !.shown = Append(@, FailNotice)]
    ELSE toggleLike(c, b, PostId(b), getCurrentUserId)

\* The document's click listener of setupLikeButtons.
GenericClick(c, b) ==
    IF GenericLocked(c.btn[b]) THEN c
    ELSE IF PostId(b).nan THEN c
    ELSE toggleLike(c, b, PostId(b), getCurrentUserId)

\* ------------------------------------------------------- liked-posts.js

\* 'if (button.disabled) return' of the list's click listener.
ListLocked(bt) == bt.disabled

\* The list's capturing click listener up to its fetch.
ListClick(c, b) ==
    IF ListLocked(c.btn[b]) THEN c
    ELSE IF ~Truthy(getCurrentUserId) \/ PostId(b).nan THEN c
    ELSE FetchToggle([c EXCEPT !.btn[b].disabled = TRUE], b, PostId(b).n, "list")

\* e.stopPropagation() in the capturing listener: the event never reaches
\* the document's listener.
ListStopsPropagation == TRUE

\* The list's listener sees the click: the button is inside .articles-list.
ListIntercepts(b) == likedPage /\ phase = "ready" /\ btn[b].where = "list"

\* Click dispatch: capture phase at the list, then bubbling to the document.
Dispatch(b) ==
    LET c1 == IF ListIntercepts(b) THEN ListClick(Client, b) ELSE Client
    IN  IF handlerInstalled /\ ~(ListIntercepts(b) /\ ListStopsPropagation)
        THEN GenericClick(c1, b)
        ELSE c1

\* --------------------------------------------------- likes.js: Status Sync

\* The buttons initializeLikes selects: '.like-button[data-post-id]'.
Matching == {b \in Buttons : InDocument(btn[b]) /\ HasPostIdAttr(b)}

\* One status query per distinct item instead of one per button.
PassQueries_perItem(pass) ==
    LET valid == {x \in Matching : ~PostId(x).nan}
    IN  {StatusRequest(CHOOSE b \in valid : PostId(b).n = i, i, pass) :
            i \in {PostId(x).n : x \in valid}}

\* The status queries one pass of initializeLikes sends for an identified
\* viewer: one per selected button whose item id parses.
PassQueries(pass) ==
    {StatusRequest(b, PostId(b).n, pass) : b \in {x \in Matching : ~PostId(x).nan}}

\* The anonymous branch of initializeLikes: every selected button not-liked.
PaintAnonymous ==
    [b \in Buttons |-> IF b \in Matching THEN updateLikeButton(btn[b], FALSE) ELSE btn[b]]

\* initializeLikes without its anonymous branch: queries for any viewer.
initializeLikes_noAnonymousBranch(pass) ==
    [btn |-> btn, net |-> net \cup PassQueries(pass)]

\* initializeLikes() up to its await: what it leaves in the document and on
\* the network.
initializeLikes(pass) ==
    IF ~Truthy(getCurrentUserId)
    THEN [btn |-> PaintAnonymous, net |-> net]
    ELSE [btn |-> btn, net |-> net \cup PassQueries(pass)]

\* The nodes added to the document, by what the observer's test reads of
\* them: nodeType === 1, the node's own classes, and its descendants.
AddedNode(shape) ==
    LET node(element, classes, inside) ==
            [element |-> element, classList |-> classes, descendants |-> inside]
    IN  CASE shape = "card"     -> node(TRUE, {"article-card"}, {"like-button"})
          [] shape = "section"  -> node(TRUE, {}, {"article-card", "like-button"})
          [] shape = "wrapper"  -> node(TRUE, {}, {"like-button"})
          [] shape = "button"   -> node(TRUE, {"like-button"}, {"like-icon", "like-text"})
          [] shape = "spinner"  -> node(TRUE, {"spinner-border"}, {})
          [] shape = "icon"     -> node(TRUE, {"like-icon"}, {})
          [] shape = "text"     -> node(TRUE, {"like-text"}, {})
          [] shape = "textnode" -> node(FALSE, {}, {})

\* The shapes of the nodes that bring a like button into the document.
NodeShapes == {"card", "section", "wrapper", "button"}

\* node.nodeType === 1 && (node.classList.contains('article-card') ||
\* node.querySelector('.article-card') || node.querySelector('.like-button'))
shouldReinitialize(shape) ==
    LET node == AddedNode(shape)
    IN  node.element /\ ( \/ "article-card" \in node.classList
                          \/ "article-card" \in node.descendants
                          \/ "like-button" \in node.descendants )

\* The observer's callback for one batch of added nodes: one rescan timer
\* when some added node passes the test.
ObserverCallback(pending, added) ==
    IF \E shape \in added : shouldReinitialize(shape) THEN pending + 1 ELSE pending

\* The nodes a handler's step adds inside a button: the loading indicator,
\* the icon and text appended back, the text node textContent writes.
AddedInside(old, new, painted) ==
    {s \in {"spinner"} : new.content.spinner /\ ~old.content.spinner}
        \cup {s \in {"icon"} : new.content.icon # "none" /\ old.content.icon = "none"}
        \cup {s \in {"text"} : new.content.text # "none" /\ old.content.text = "none"}
        \cup {s \in {"textnode"} : painted /\ new.content.text # "none"}

\* The nodes the synchronous part of a pass adds: the text nodes textContent
\* writes into the buttons the anonymous branch paints.
PassAdded(painted) ==
    UNION {AddedInside(btn[b], painted[b], ~Truthy(getCurrentUserId)) :
              b \in Matching}

\* The queries of the first pass that are still unanswered in a network n.
InitialPending(n) == {m \in n : m.kind = "status" /\ m.id = 0}

\* isLiked answering true when its query fails.
isLiked_trueOnFailure(m, out) == out # "ok" \/ m.val = "true"

\* What isLiked() returns for an answered query: the body when the status is
\* a success and the body parses, false otherwise.
isLiked(m, out) == out = "ok" /\ m.val = "true"

\* --------------------------------------------- liked-posts.js: reconcile

\* The list's handler removing the card whatever the response says.
ListUnliked_always(m, out) == TRUE

\* '!result.liked' for a parsed body: the card is to be removed.
ListUnliked(m, out) == out = "nofield" \/ (out = "ok" /\ m.val = "false")

\* likedPostsList.querySelectorAll('.article-card') after card.remove().
RemainingCards(b) == {x \in Buttons \ {b} : btn[x].where = "list"}

\* The emptiness test off by one: reload when one card is left.
ListIsEmpty_offByOne(cards) == Cardinality(cards) <= 1

\* 'remainingCards.length === 0'
ListIsEmpty(cards) == Cardinality(cards) = 0

\* ------------------------------------------------------------- responses
\* How a request ends.  "ok": success status, body {liked: val} (the body
\* val for a status query);
\* "nofield": success status, body {}; "null": success status, body null;
\* "unparseable": success status, body not JSON; "http_error": non-success
\* status; "network_error": fetch rejects.
ToggleOutcomes == {"ok", "nofield", "null", "unparseable", "http_error", "network_error"}
StatusOutcomes == {"ok", "unparseable", "http_error", "network_error"}
FailureOutcomes == {"http_error", "network_error"}

\* The continuation of toggleLike after its fetch, on the button.
GenericResponse(bt, clones, m, out) ==
    CASE out \in {"ok", "nofield"} ->
            ReconcileButton(bt, clones, out = "ok" /\ m.val = "true")
      [] out = "null" -> FailureRestore(RestoreClones(bt, clones))
      [] OTHER -> FailureRestore(bt)

\* The list's continuation without the else branch that re-enables the
\* button when the item is still liked.
ListResponse_staysLocked(bt, m, out) ==
    IF out \in {"ok", "nofield"}
    THEN IF ListUnliked(m, out)
         THEN [bt EXCEPT !.fading = TRUE]
         ELSE bt
    ELSE [bt EXCEPT !.disabled = FALSE]

\* The continuation of the list's listener after its fetch, on the button.
ListResponse(bt, m, out) ==
    IF out \in {"ok", "nofield"}
    THEN IF ListUnliked(m, out)
         THEN [bt EXCEPT !.fading = TRUE]
         ELSE [bt EXCEPT !.disabled = FALSE]
    ELSE [bt EXCEPT !.disabled = FALSE]

\* The notice a toggle continuation shows.
ResponseNotices(out) ==
    IF out \in {"ok", "nofield"} THEN <<>> ELSE <<FailNotice>>

\* ---------------------------------------------------------------- theme.js
\* localStorage.getItem of an absent item, getAttribute of an absent attribute.
NoTheme == "<null>"

\* What localStorage may hold under 'theme' when the script starts: nothing,
\* the empty string, the two themes, and values no version of the script
\* wrote.
StoredThemes == {NoTheme, "", "light", "dark", "Dark", "auto"}

\* The data-theme attribute the page is served with.
ServedThemes == {NoTheme, "light", "dark"}

\* value || 'light'
OrLight(value) == IF value \in {NoTheme, ""} THEN "light" ELSE value

\* The part of the page theme.js writes.
Theme == [data |-> dataTheme, stored |-> storedTheme, icon |-> themeIcon]

\* applyTheme without its localStorage.setItem.
applyTheme_noPersist(th, theme) ==
    [th EXCEPT !.data = theme,
               !.icon = IF @ = "absent" THEN @
                        ELSE IF theme = "dark" THEN "sun" ELSE "moon"]

\* applyTheme(theme): the attribute, the stored item, and the icon if present.
applyTheme(th, theme) ==
    [th EXCEPT !.data = theme,
               !.stored = theme,
               !.icon = IF @ = "absent" THEN @
                        ELSE IF theme = "dark" THEN "sun" ELSE "moon"]

\* const savedTheme = localStorage.getItem('theme') || 'light'
savedTheme == OrLight(storedTheme)

\* The click listener's newTheme.
newTheme ==
    LET currentTheme == OrLight(dataTheme)
    IN  IF currentTheme = "light" THEN "dark" ELSE "light"

\* theme.js has not run and nothing is stored.
ThemeIdle ==
    /\ themeScript = "pending"
    /\ storedTheme = NoTheme
    /\ dataTheme = NoTheme
    /\ themeIcon = "template"
    /\ themeToggle = TRUE
    /\ nThemeClicks = 0

\* Toggle requests sent and rescan timers started so far.
Events == nToggleReq + timers + (IF nPass = 0 THEN 0 ELSE nPass - 1)

\* ----------------------------------------------------------------- Init
Init ==
    /\ phase = "loading"
    /\ likedPage \in BOOLEAN
    /\ userMeta \in UserMetas
    /\ postIdAttr \in {f \in [Buttons -> UNION {PostIdAttrs(b) : b \in Buttons}] :
                          \A b \in Buttons : f[b] \in PostIdAttrs(b)}
    /\ \E present \in SUBSET Buttons : \E painted \in BOOLEAN :
          btn = [b \in Buttons |->
                    Rendered(IF b \in present
                             THEN (IF likedPage THEN "list" ELSE "page")
                             ELSE "absent",
                             painted)]
    /\ originalContent = [b \in Buttons |-> NoClones]
    /\ net = {}
    /\ srv \in [{(parseInt(postIdAttr[b])).n :
                    b \in {x \in Buttons : postIdAttr[x] # NoValue
                                            /\ ~(parseInt(postIdAttr[x])).nan}}
                -> BOOLEAN]
    /\ handlerInstalled = FALSE
    /\ timers = 0
    /\ nPass = 0
    /\ nToggleReq = 0
    /\ shown = <<>>
    /\ ThemeIdle

\* -------------------------------------------------------------- actions

\* DOMContentLoaded: likes.js starts the first Status Sync pass and installs
\* its click listener once the pass is over; liked-posts.js installs the
\* list's listener at once.
DOMContentLoaded ==
    /\ phase = "loading"
    /\ LET r == initializeLikes(0) IN
        /\ btn' = r.btn
        /\ net' = r.net
        /\ handlerInstalled' = (InitialPending(r.net) = {})
        /\ timers' = ObserverCallback(timers, PassAdded(r.btn))
    /\ phase' = "ready"
    /\ nPass' = 1
    /\ shown' = <<>>
    /\ UNCHANGED themeVars
    /\ UNCHANGED <<likedPage, userMeta, postIdAttr, originalContent, srv, nToggleReq>>

\* A click event on a like button in the document.
Click(b) ==
    /\ phase # "reloaded"
    /\ InDocument(btn[b])
    /\ Events < MaxEvents
    /\ LET c == Dispatch(b) IN
        /\ btn' = c.btn
        /\ originalContent' = c.orig
        /\ net' = c.net
        /\ srv' = c.srv
        /\ nToggleReq' = c.nTog
        /\ shown' = c.shown
        /\ timers' = ObserverCallback(timers, AddedInside(btn[b], c.btn[b], FALSE))
    /\ UNCHANGED themeVars
    /\ UNCHANGED <<phase, likedPage, userMeta, postIdAttr, handlerInstalled, nPass>>

\* A toggle request ends and its handler's continuation runs.
ToggleResponse(m, out) ==
    /\ phase # "reloaded"
    /\ m \in net /\ m.kind = "toggle"
    /\ btn' = [btn EXCEPT ![m.b] =
                 IF m.via = "generic"
                 THEN GenericResponse(@, originalContent[m.b], m, out)
                 ELSE ListResponse(@, m, out)]
    /\ originalContent' = [originalContent EXCEPT ![m.b] = NoClones]
    /\ net' = net \ {m}
    /\ shown' = ResponseNotices(out)
    /\ timers' = ObserverCallback(timers,
                    AddedInside(btn[m.b], btn'[m.b],
                                m.via = "generic" /\ out \in {"ok", "nofield"}))
    /\ UNCHANGED themeVars
    /\ UNCHANGED <<phase, likedPage, userMeta, postIdAttr, srv, handlerInstalled,
                   nPass, nToggleReq>>

\* A status query ends, and its answer is dropped when the server's record
\* has changed since it was given (responses sequenced).
StatusResponse_discardsStale(m, out) ==
    /\ phase # "reloaded"
    /\ m \in net /\ m.kind = "status"
    /\ btn' = IF out = "ok" /\ (m.val = "true") # srv[m.item]
              THEN btn
              ELSE [btn EXCEPT ![m.b] = updateLikeButton(@, isLiked(m, out))]
    /\ net' = net \ {m}
    /\ handlerInstalled' = (handlerInstalled \/
                            (m.id = 0 /\ InitialPending(net \ {m}) = {}))
    /\ shown' = <<>>
    /\ UNCHANGED themeVars
    /\ UNCHANGED <<phase, likedPage, userMeta, postIdAttr, originalContent, srv,
                   timers, nPass, nToggleReq>>

\* A status query ends: its button is painted; the end of the first pass's
\* last query lets setupLikeButtons run.
StatusResponse(m, out) ==
    /\ phase # "reloaded"
    /\ m \in net /\ m.kind = "status"
    /\ btn' = [btn EXCEPT ![m.b] = updateLikeButton(@, isLiked(m, out))]
    /\ net' = net \ {m}
    /\ handlerInstalled' = (handlerInstalled \/
                            (m.id = 0 /\ InitialPending(net \ {m}) = {}))
    /\ shown' = <<>>
    /\ timers' = ObserverCallback(timers, AddedInside(btn[m.b], btn'[m.b], TRUE))
    /\ UNCHANGED themeVars
    /\ UNCHANGED <<phase, likedPage, userMeta, postIdAttr, originalContent, srv,
                   nPass, nToggleReq>>

\* Content is inserted into the document: a node of the given shape holding
\* button b, rendered by the page's template.  The mutation observer starts
\* a rescan timer for the shapes it recognises.
InsertContent(b, shape, where) ==
    /\ phase = "ready"
    /\ btn[b].where = "absent"
    /\ where = "list" => (likedPage /\ shape \in {"card", "section"})
    /\ shouldReinitialize(shape) => Events < MaxEvents
    /\ btn' = [btn EXCEPT ![b] = Rendered(where, @.liked)]
    /\ timers' = ObserverCallback(timers, {shape})
    /\ shown' = <<>>
    /\ UNCHANGED themeVars
    /\ UNCHANGED <<phase, likedPage, userMeta, postIdAttr, originalContent, net, srv,
                   handlerInstalled, nPass, nToggleReq>>

\* A rescan timer of the observer fires: a fresh Status Sync pass.
RescanTimer ==
    /\ phase = "ready"
    /\ timers > 0
    /\ LET r == initializeLikes(nPass) IN
        /\ btn' = r.btn
        /\ net' = r.net
        /\ timers' = ObserverCallback(timers - 1, PassAdded(r.btn))
    /\ nPass' = nPass + 1
    /\ shown' = <<>>
    /\ UNCHANGED themeVars
    /\ UNCHANGED <<phase, likedPage, userMeta, postIdAttr, originalContent, srv,
                   handlerInstalled, nToggleReq>>

\* The removal timer of a faded card fires: the card leaves the document,
\* and the page reloads when the list holds no card any more.
CardRemoved(b) ==
    /\ phase = "ready"
    /\ btn[b].fading /\ btn[b].where = "list"
    /\ btn' = [btn EXCEPT ![b].where = "removed", ![b].fading = FALSE]
    /\ phase' = IF ListIsEmpty(RemainingCards(b)) THEN "reloaded" ELSE phase
    /\ shown' = <<>>
    /\ UNCHANGED themeVars
    /\ UNCHANGED <<likedPage, userMeta, postIdAttr, originalContent, net, srv,
                   handlerInstalled, timers, nPass, nToggleReq>>

Next ==
    \/ DOMContentLoaded
    \/ \E b \in Buttons : Click(b)
    \/ \E m \in net : \E out \in ToggleOutcomes : ToggleResponse(m, out)
    \/ \E m \in net : \E out \in StatusOutcomes : StatusResponse(m, out)
    \/ \E b \in Buttons : \E shape \in NodeShapes : \E where \in {"page", "list"} :
          InsertContent(b, shape, where)
    \/ RescanTimer
    \/ \E b \in Buttons : CardRemoved(b)

Spec == Init /\ [][Next]_vars

\* The browser fires a due timer: the card removal is not postponed for ever.
FairSpec == Spec /\ \A b \in Buttons : WF_vars(CardRemoved(b))

\* ------------------------------------------------- theme.js on its own
\* The like buttons' side of a page that holds none, left alone.
LikesIdle ==
    /\ phase = "loading"
    /\ likedPage = FALSE
    /\ userMeta = NoValue
    /\ postIdAttr = [b \in Buttons |-> NoValue]
    /\ btn = [b \in Buttons |-> Rendered("absent", FALSE)]
    /\ originalContent = [b \in Buttons |-> NoClones]
    /\ net = {}
    /\ srv = [i \in {} |-> FALSE]
    /\ handlerInstalled = FALSE
    /\ timers = 0
    /\ nPass = 0
    /\ nToggleReq = 0
    /\ shown = <<>>

likesVars == <<phase, likedPage, userMeta, postIdAttr, btn, originalContent, net,
               srv, handlerInstalled, timers, nPass, nToggleReq, shown>>

ThemeInit ==
    /\ LikesIdle
    /\ themeScript = "pending"
    /\ storedTheme \in StoredThemes
    /\ dataTheme \in ServedThemes
    /\ themeIcon \in {"absent", "template"}
    /\ themeToggle \in BOOLEAN
    /\ nThemeClicks = 0

\* The script runs: applyTheme(savedTheme), then the listener is added if
\* the toggle exists.
ThemeScriptRuns ==
    /\ themeScript = "pending"
    /\ LET th == applyTheme(Theme, savedTheme) IN
        /\ dataTheme' = th.data
        /\ storedTheme' = th.stored
        /\ themeIcon' = th.icon
    /\ themeScript' = "run"
    /\ UNCHANGED <<themeToggle, nThemeClicks>>
    /\ UNCHANGED likesVars

\* A click on #theme-toggle.
ThemeClick ==
    /\ themeScript = "run"
    /\ themeToggle
    /\ nThemeClicks < MaxThemeClicks
    /\ LET th == applyTheme(Theme, newTheme) IN
        /\ dataTheme' = th.data
        /\ storedTheme' = th.stored
        /\ themeIcon' = th.icon
    /\ nThemeClicks' = nThemeClicks + 1
    /\ UNCHANGED <<themeScript, themeToggle>>
    /\ UNCHANGED likesVars

ThemeNext ==
    \/ ThemeScriptRuns
    \/ ThemeClick

ThemeSpec == ThemeInit /\ [][ThemeNext]_vars

\* ------------------------------------------------------------ vocabulary
\* The viewer has no identity the scripts accept.
Anonymous == ~Truthy(getCurrentUserId)

\* The button's item id parses as an integer.
ValidId(b) == ~PostId(b).nan

\* The toggle requests of button b in flight.
TogglesInFlight(b) == {m \in net : m.kind = "toggle" /\ m.b = b}

\* The button shows state v: its class, and its icon and text where present.
PaintedAs(bt, v) ==
    /\ bt.liked = v
    /\ bt.content.icon \in {"none", Paint(v)}
    /\ bt.content.text \in {"none", Paint(v)}

\* The content holds no loading indicator and the icon and text
\* sub-elements that ref holds.
SameSubElements(content, ref) ==
    /\ ~content.spinner
    /\ (content.icon = "none") = (ref.icon = "none")
    /\ (content.text = "none") = (ref.text = "none")

NoticesOf(s) == {s[i] : i \in 1..Len(s)}

\* The first Status Sync pass is over: it has run and none of its queries
\* is unanswered.
InitialSyncDone == phase # "loading" /\ InitialPending(net) = {}

\* A listener that handles clicks on b is installed.
HasListener(b) ==
    \/ handlerInstalled
    \/ (likedPage /\ phase = "ready" /\ btn[b].where = "list")

\* ------------------------------------------------------------------ C1
\* C1: at most one toggle request per button is in flight at any time, and
\* a click on a locked (disabled) button sends no request and changes
\* nothing, on either view.
C1_OneToggleInFlight ==
    /\ [](\A b \in Buttons : Cardinality(TogglesInFlight(b)) <= 1)
    /\ [][\A b \in Buttons :
            (Click(b) /\ btn[b].disabled) =>
                UNCHANGED <<btn, net, originalContent, nToggleReq>>]_vars

\* A locked button with its request in flight, while clicks are still possible.
C1_Witness ==
    \E b \in Buttons :
        /\ btn[b].disabled /\ InDocument(btn[b])
        /\ Cardinality(TogglesInFlight(b)) = 1
        /\ Events < MaxEvents
        /\ phase = "ready"

\* ------------------------------------------------------------------ C2
\* C2: after every successful toggle response {liked: v} the button shows
\* v, whether the generic handler or the list's handler took the click.
C2_ReconciledEqualsResponse ==
    [][\A m \in net :
         (m.kind = "toggle" /\ ToggleResponse(m, "ok")) =>
             PaintedAs(btn'[m.b], m.val = "true")]_vars

\* ------------------------------------------------------------------ C3
\* C3: after every failed toggle the button is enabled, holds the icon and
\* text it held before the click and no loading indicator, and its
\* liked / not-liked state is as before.
C3_FailureRestores ==
    [][\A m \in net : \A out \in FailureOutcomes :
         (m.kind = "toggle" /\ ToggleResponse(m, out)) =>
             /\ ~btn'[m.b].disabled
             /\ SameSubElements(btn'[m.b].content,
                                IF m.via = "generic" THEN originalContent[m.b]
                                                     ELSE btn[m.b].content)
             /\ btn'[m.b].liked = btn[m.b].liked]_vars

\* ------------------------------------------------------------------ C4
\* C4: for a viewer with no identity no request is ever sent, every Status
\* Sync pass leaves every matching button painted not-liked, and no later
\* step paints it otherwise.
C4_AnonymousNoCalls ==
    /\ [](Anonymous => (net = {} /\ nToggleReq = 0))
    /\ [][(Anonymous /\ (DOMContentLoaded \/ RescanTimer)) =>
             \A b \in Buttons :
                (InDocument(btn'[b]) /\ HasPostIdAttr(b)) => PaintedAs(btn'[b], FALSE)]_vars
    /\ [][Anonymous =>
             \A b \in Buttons :
                (InDocument(btn[b]) /\ PaintedAs(btn[b], FALSE)) =>
                    PaintedAs(btn'[b], FALSE)]_vars

\* An anonymous viewer has clicked (the notice is up) after a rescan.
C4_Witness ==
    /\ Anonymous
    /\ nPass = 2
    /\ shown = <<AuthNotice>>
    /\ \A b \in Buttons : HasPostIdAttr(b) /\ InDocument(btn[b])

\* ------------------------------------------------------------------ C5
\* C5: every click of an anonymous viewer on an enabled button with a valid
\* item id shows the notice asking to authenticate and leaves the button as
\* it was, on either view.
C5_AnonymousClickNotice ==
    [][\A b \in Buttons :
         (Anonymous /\ phase = "ready" /\ ~btn[b].disabled /\ ValidId(b) /\ Click(b)) =>
             (AuthNotice \in NoticesOf(shown') /\ btn' = btn)]_vars

\* ------------------------------------------------------------------ C6
\* C6: no toggle request is sent before the first Status Sync pass is over,
\* on any page.
C6_NoToggleBeforeSync ==
    ~InitialSyncDone => (nToggleReq = 0 /\ \A b \in Buttons : TogglesInFlight(b) = {})

C8_ReloadWhenEmpty ==
    [][(phase # "reloaded" /\ phase' = "reloaded") <=>
         /\ \E b \in Buttons : btn[b].where = "list" /\ btn'[b].where = "removed"
         /\ \A x \in Buttons : btn'[x].where # "list"]_vars

\* Both cards were unliked and removed, and the second removal reloaded.
C8_Witness ==
    /\ phase = "reloaded"
    /\ \A b \in Buttons : btn[b].where = "removed"

C10_OneRequestPerClick ==
    /\ [][\A b \in Buttons :
            (Click(b) /\ HasListener(b) /\ ~btn[b].disabled /\ ValidId(b) /\ ~Anonymous) =>
                /\ Cardinality(net' \ net) = 1
                /\ \A m \in net' \ net : m.kind = "toggle" /\ m.b = b
                /\ net \subseteq net'
                /\ nToggleReq' = nToggleReq + 1]_vars
    /\ [][\A m \in net' \ net :
            m.kind = "toggle" =>
                /\ Click(m.b) /\ ~btn[m.b].disabled
                /\ {x \in net' \ net : x.kind = "toggle"} = {m}]_vars

\* The second accepted click of a page view has sent its request, after the
\* first one failed.
C10_Witness ==
    \E b \in Buttons :
        /\ nToggleReq = 2
        /\ Cardinality(TogglesInFlight(b)) = 1
        /\ Cardinality({m \in net : m.kind = "toggle"}) = 1
        /\ btn[b].content.spinner /\ btn[b].liked

\* ----------------------------------------------------------------- C11
\* C11: a status query that ends in a network error or a non-success status
\* paints its button not-liked and shows no notice; no request is sent for
\* it again; the other buttons and the other queries in flight are left
\* alone, and the first pass is over (the click listener is installed) as
\* soon as each of its queries has ended, however it ended.
C11_StatusFailureSilent ==
    /\ [][\A m \in net : \A out \in FailureOutcomes :
            (m.kind = "status" /\ StatusResponse(m, out)) =>
                /\ PaintedAs(btn'[m.b], FALSE)
                /\ shown' = <<>>
                /\ net' = net \ {m}
                /\ \A x \in Buttons \ {m.b} : btn'[x] = btn[x]
                /\ InitialPending(net') = {} => handlerInstalled']_vars
    /\ []((phase # "loading" /\ InitialPending(net) = {}) => handlerInstalled)

\* On the liked-items view the first pass is over with nothing else done:
\* the server holds both items liked, one button was painted liked by its
\* answer and the other not-liked by its failed query.
C11_Witness ==
    /\ ~Anonymous /\ handlerInstalled /\ net = {}
    /\ nPass = 1 /\ timers = 0 /\ nToggleReq = 0
    /\ \E a \in Buttons : \E b \in Buttons \ {a} :
          /\ btn[a].where = "list" /\ btn[b].where = "list"
          /\ ValidId(a) /\ ValidId(b)
          /\ srv[PostId(a).n] /\ srv[PostId(b).n]
          /\ PaintedAs(btn[a], FALSE) /\ PaintedAs(btn[b], TRUE)

\* ----------------------------------------------------------------- C12
\* C12: for an identified viewer a Status Sync pass sends exactly one status
\* query for each like button in the document whose item id parses, one per
\* button also when two buttons name the same item, and nothing else; the
\* answer to a query paints its own button at once with what it says and
\* writes no other button, and every query in flight can be answered next,
\* whatever else is in flight.
C12_OneQueryPerButton ==
    /\ [][(~Anonymous /\ (DOMContentLoaded \/ RescanTimer)) =>
            /\ net \subseteq net'
            /\ \A m \in net' \ net : m.kind = "status" /\ m.item = PostId(m.b).n
            /\ \A b \in Buttons :
                  Cardinality({m \in net' \ net : m.b = b}) =
                      IF InDocument(btn[b]) /\ ValidId(b) THEN 1 ELSE 0]_vars
    /\ [][\A m \in net : \A out \in StatusOutcomes :
            (m.kind = "status" /\ StatusResponse(m, out)) =>
                /\ PaintedAs(btn'[m.b], out = "ok" /\ m.val = "true")
                /\ \A x \in Buttons \ {m.b} : btn'[x] = btn[x]
                /\ net' = net \ {m}]_vars
    /\ [](\A m \in net :
            (m.kind = "status" /\ phase # "reloaded") => ENABLED StatusResponse(m, "ok"))

\* Two buttons name the same item; the second was painted liked by its own
\* answer while the query of the first is still unanswered.
C12_Witness ==
    /\ ~Anonymous /\ nToggleReq = 0 /\ nPass = 1
    /\ postIdAttr["b1"] = postIdAttr["b2"]
    /\ InDocument(btn["b1"]) /\ InDocument(btn["b2"])
    /\ \E m \in net : m.kind = "status" /\ m.b = "b1"
    /\ ~\E m \in net : m.kind = "status" /\ m.b = "b2"
    /\ btn["b2"].liked /\ ~btn["b1"].liked

\* ----------------------------------------------------------------- C13
\* C13: rescans are debounced: an insertion the observer matches while the
\* rescan timer of an earlier one is still pending (a burst) starts no
\* second rescan, so at most one rescan timer is pending at any time.
C13_BurstOneRescan ==
    /\ [](timers <= 1)
    /\ [][\A b \in Buttons : \A shape \in NodeShapes : \A where \in {"page", "list"} :
            (InsertContent(b, shape, where) /\ timers > 0) => timers' <= 1]_vars

\* ----------------------------------------------------------------- C14
\* C14: every insertion of a node that is an item card, contains an item
\* card, contains a like button or is itself a like button starts a rescan
\* (a timer whose firing is a fresh Status Sync pass), and no other step
\* starts one: not the loading indicator, nor the icon and text a handler
\* puts back, nor the text a repaint writes.
C14_InsertionRescans ==
    /\ [][\A b \in Buttons : \A shape \in NodeShapes : \A where \in {"page", "list"} :
            InsertContent(b, shape, where) => timers' = timers + 1]_vars
    /\ [][timers' > timers =>
            \E b \in Buttons : \E shape \in NodeShapes : \E where \in {"page", "list"} :
                InsertContent(b, shape, where)]_vars

\* ----------------------------------------------------------------- C15
\* C15: a like button whose item id is missing or does not parse is inert:
\* a click on it, on either view and for any viewer, sends no request,
\* shows no notice and leaves every button as it was; and no request, status
\* query or toggle, is ever in flight for such a button.
C15_InvalidIdInert ==
    /\ [][\A b \in Buttons :
            (Click(b) /\ ~ValidId(b)) =>
                /\ UNCHANGED <<btn, originalContent, net, srv, nToggleReq, timers>>
                /\ shown' = <<>>]_vars
    /\ [](\A m \in net : ValidId(m.b) /\ m.item = PostId(m.b).n)

\* An identified viewer can click a button whose data-post-id is there but
\* does not parse: it is enabled, a listener serves it, and the first pass,
\* which painted the other button liked, is over.
C15_Witness ==
    \E b \in Buttons : \E a \in Buttons \ {b} :
        /\ ~Anonymous /\ phase = "ready" /\ Events < MaxEvents
        /\ HasPostIdAttr(b) /\ ~ValidId(b)
        /\ InDocument(btn[b]) /\ ~btn[b].disabled /\ HasListener(b)
        /\ handlerInstalled /\ nPass = 1 /\ net = {}
        /\ InDocument(btn[a]) /\ btn[a].liked /\ ~btn[b].liked

\* ----------------------------------------------------------------- C16
\* C16: a toggle response with a success status and a malformed body (not
\* JSON, JSON null, or an object without a liked field) takes the failure
\* path: the failure notice is shown, the button is enabled, and its
\* liked / not-liked state is not repainted.
C16_MalformedIsFailure ==
    [][\A m \in net : \A out \in {"nofield", "null", "unparseable"} :
         (m.kind = "toggle" /\ ToggleResponse(m, out)) =>
             /\ FailNotice \in NoticesOf(shown')
             /\ ~btn'[m.b].disabled
             /\ btn'[m.b].liked = btn[m.b].liked
             /\ ~btn'[m.b].fading]_vars

\* ----------------------------------------------------------------- C17
\* C17: responses are applied as they arrive, with no cancellation and no
\* sequencing: a request leaves the network only when its own response is
\* handled; a status answer given before a toggle changed the server's
\* record can still arrive after the toggle's response, and it then
\* repaints the button with the older value, which leaves the button
\* showing the opposite of the server's record with no request in flight.
C17_StaleStatusRepaints ==
    /\ [][net \ net' # {} =>
            \E m \in net :
                /\ net \ net' = {m}
                /\ \/ \E out \in ToggleOutcomes : ToggleResponse(m, out)
                   \/ \E out \in StatusOutcomes : StatusResponse(m, out)]_vars
    /\ [](\A m \in net :
            (m.kind = "status" /\ phase # "reloaded" /\ (m.val = "true") # srv[m.item])
                => ENABLED StatusResponse(m, "ok"))
    /\ [][\A m \in net :
            ( /\ m.kind = "status" /\ StatusResponse(m, "ok")
              /\ net = {m} /\ (m.val = "true") # srv[m.item] ) =>
                /\ net' = {}
                /\ PaintedAs(btn'[m.b], ~srv'[m.item])]_vars

\* A rescan asked for the state of a button's item, a click then toggled it
\* and the toggle's response was reconciled: the button shows the server's
\* record, and the older answer of the rescan is all that is in flight.
C17_Witness ==
    \E b \in Buttons : \E m \in net :
        /\ net = {m} /\ m.kind = "status" /\ m.b = b
        /\ phase = "ready" /\ btn[b].where = "page"
        /\ nToggleReq = 1 /\ nPass = 2
        /\ \A x \in Buttons \ {b} : ~ValidId(x) \/ PostId(x).n # m.item
        /\ (m.val = "true") # srv[m.item]
        /\ PaintedAs(btn[b], srv[m.item])
        /\ ~btn[b].disabled /\ ~btn[b].content.spinner /\ btn[b].content.icon # "none"

\* ----------------------------------------------------------------- C18
\* C18: the client never guesses the new state from the click.  A click,
\* accepted or not, on either view, leaves the liked / not-liked state of
\* every button as it was; that state changes only in the step that handles
\* a response for that button, or in a Status Sync pass for a viewer with no
\* identity; a toggle response changes it only when its status is a
\* success, a failed status query or an anonymous pass only to not-liked.
C18_NoOptimisticUpdate ==
    /\ [][\A b \in Buttons :
            Click(b) => \A x \in Buttons : btn'[x].liked = btn[x].liked]_vars
    /\ [][\A b \in Buttons :
            btn'[b].liked # btn[b].liked =>
                \/ \E m \in net : \E out \in {"ok", "nofield"} :
                      /\ m.kind = "toggle" /\ m.b = b /\ ToggleResponse(m, out)
                      /\ out = "ok" => btn'[b].liked = (m.val = "true")
                \/ \E m \in net : \E out \in StatusOutcomes :
                      /\ m.kind = "status" /\ m.b = b /\ StatusResponse(m, out)
                      /\ btn'[b].liked = (out = "ok" /\ m.val = "true")
                \/ /\ Anonymous /\ (DOMContentLoaded \/ RescanTimer)
                   /\ ~btn'[b].liked]_vars

\* A click was accepted and its request already flipped the server's record
\* to not-liked: the locked button still carries the liked state while the
\* answer is in flight.
C18_Witness ==
    \E b \in Buttons : \E m \in net :
        /\ net = {m} /\ m.kind = "toggle" /\ m.b = b /\ m.via = "generic"
        /\ btn[b].disabled /\ btn[b].content.spinner
        /\ btn[b].liked /\ m.val = "false" /\ ~srv[m.item]

\* ----------------------------------------------------------------- C19
\* The steps of Status Sync: the start of a pass and the handling of a
\* status answer.
StatusSyncStep ==
    \/ DOMContentLoaded
    \/ RescanTimer
    \/ \E m \in net : \E out \in StatusOutcomes : StatusResponse(m, out)

\* Two contents hold the same sub-elements, whatever their paint.
SameStructure(c, d) ==
    /\ c.spinner = d.spinner
    /\ (c.icon = "none") = (d.icon = "none")
    /\ (c.text = "none") = (d.text = "none")

\* C19: Status Sync can run at any time and any number of times.  No step
\* of it changes a button's disabled flag, its place in the document or the
\* sub-elements it holds, also while a toggle is in flight; it sends status
\* queries only and leaves the server's records alone.  While the server's
\* records are unchanged every successful answer paints what the server
\* holds, and painting a button that already shows the answer changes
\* nothing: further passes, overlapping or not, leave what one pass leaves.
C19_StatusSyncIdempotent ==
    /\ [][StatusSyncStep =>
            /\ \A b \in Buttons :
                  /\ btn'[b].disabled = btn[b].disabled
                  /\ btn'[b].where = btn[b].where
                  /\ btn'[b].fading = btn[b].fading
                  /\ SameStructure(btn'[b].content, btn[b].content)
            /\ originalContent' = originalContent
            /\ srv' = srv /\ nToggleReq' = nToggleReq
            /\ \A m \in net' \ net : m.kind = "status"]_vars
    /\ [][\A m \in net :
            (m.kind = "status" /\ StatusResponse(m, "ok")) =>
                /\ nToggleReq = 0 => PaintedAs(btn'[m.b], srv[m.item])
                /\ PaintedAs(btn[m.b], m.val = "true") => btn' = btn]_vars

\* Two passes overlap on a button while its toggle is in flight: two status
\* queries and a toggle request of the same, locked, button are unanswered.
C19_Witness ==
    \E b \in Buttons :
        /\ Cardinality({m \in net : m.kind = "status" /\ m.b = b}) = 2
        /\ Cardinality(TogglesInFlight(b)) = 1
        /\ btn[b].disabled /\ InDocument(btn[b])

\* ----------------------------------------------------------------- C20
\* C20: once theme.js has run, and after any clicks on the theme toggle,
\* the stored theme equals the data-theme attribute; after the first click
\* it is 'light' or 'dark'; a click turns 'light' into 'dark' and anything
\* else into 'light', so that from the first click on every click flips the
\* theme and two clicks in a row restore it.
C20_ThemePersisted ==
    /\ [](themeScript = "run" => (storedTheme = dataTheme /\ dataTheme # NoTheme))
    /\ [](nThemeClicks >= 1 => dataTheme \in {"light", "dark"})
    /\ [][ThemeClick =>
            /\ dataTheme = "light" => dataTheme' = "dark"
            /\ dataTheme # "light" => dataTheme' = "light"
            /\ nThemeClicks >= 1 =>
                  (dataTheme' # dataTheme /\ {dataTheme, dataTheme'} = {"light", "dark"})]_vars

\* The page started with a theme other than 'light', the first click made
\* it 'light', and two more clicks brought 'light' back.
C20_Witness ==
    /\ themeScript = "run" /\ nThemeClicks = 3
    /\ dataTheme = "light" /\ storedTheme = "light"
    /\ themeIcon = "moon"
====
